---- MODULE Spec2Model ----
(***************************************************************************)
(* Model of ref-exchange/src/account_deposit.rs: the per-account           *)
(* AccountDeposit record (native amount kept for storage plus a map from   *)
(* token to balance) and the Contract entry points that load a record,     *)
(* change a local copy and insert it back.                                 *)
(*                                                                         *)
(* A method call of the contract is one atomic step: a panic anywhere in   *)
(* the call discards every change the call made.  The variable trace       *)
(* keeps, for the last call only, what the call did in program order (the  *)
(* record it loaded, each AccountDeposit method that returned, the insert  *)
(* into deposited_amounts, the ft_transfer promise), lastCall keeps the    *)
(* call's arguments and how it ended.                                      *)
(***************************************************************************)
EXTENDS Integers, Sequences, FiniteSets, TLC

VARIABLES
    deposited_amounts,   \* Contract.deposited_amounts: AccountId -> AccountDeposit
    whitelisted_tokens,  \* Contract.whitelisted_tokens: set of AccountId
    lastCall,            \* the last call: its arguments and its outcome
    trace,               \* what the last call did, in program order
    deposited,           \* history: total successfully deposited, per account and token
    withdrawn,           \* history: total successfully withdrawn, per account and token
    transferred          \* history: total of the ft_transfer promises, per receiver and token

vars == <<deposited_amounts, whitelisted_tokens, lastCall, trace,
          deposited, withdrawn, transferred>>

history == <<deposited, withdrawn, transferred>>

----------------------------------------------------------------------------
(* Bounds of the model. *)

\* Balance is u128; the model keeps the arithmetic and scales the width down.
U128_MAX == 255

\* token_ids vectors of up to this length are tried.
MaxListLen == 2

\* Balances the explored deposits build up to (besides U128_MAX itself).
MaxBalance == 2

\* Totals of deposits followed by the history variables.
MaxDeposited == 2

Accounts == {"alice", "bob"}

\* The account whose calls Spec explores.
Callers == {"alice"}

Tokens == {"X", "Y"}

\* One token the owner has whitelisted and one it has not.
WhitelistedInit == {"Y"}

----------------------------------------------------------------------------
(* Constants of the program and of the host. *)

MAX_ACCOUNT_LENGTH == 64

MIN_ACCOUNT_DEPOSIT_LENGTH == MAX_ACCOUNT_LENGTH + 16 + 4

\* env::storage_byte_cost(), in units of which the model counts native amounts.
storage_byte_cost == 1

ERR_NOT_REGISTERED == "ERR_NOT_REGISTERED"

ERR_OVERFLOW == "attempt to add with overflow"

ERR_ONE_YOCTO == "Requires attached deposit of exactly 1 yoctoNEAR"

OK == "ok"

----------------------------------------------------------------------------
(* HashMap<AccountId, Balance> and the persistent map, as functions. *)

EmptyMap == [k \in {} |-> 0]

Insert(map, key, value) ==
    [k \in (DOMAIN map) \cup {key} |-> IF k = key THEN value ELSE map[k]]

Remove(map, key) == [k \in (DOMAIN map) \ {key} |-> map[k]]

\* #[derive(Default)]: amount 0 and no tokens.
DefaultAccountDeposit == [amount |-> 0, tokens |-> EmptyMap]

----------------------------------------------------------------------------
(* impl AccountDeposit.  A method that mutates returns the record as the   *)
(* method left it and the panic message, "" when it returned normally.     *)

storage_usage(self) ==
    (MIN_ACCOUNT_DEPOSIT_LENGTH
        + Cardinality(DOMAIN self.tokens) * (MAX_ACCOUNT_LENGTH + 16))
    * storage_byte_cost

min_storage_usage == MIN_ACCOUNT_DEPOSIT_LENGTH * storage_byte_cost

\* self.amount - self.storage_usage() on u128: the subtraction panics or
\* wraps, as the build has it, when the usage exceeds the amount.
storage_available(self, wrap) ==
    IF self.amount >= storage_usage(self)
    THEN [value |-> self.amount - storage_usage(self), panic |-> ""]
    ELSE IF wrap
         THEN [value |-> (self.amount - storage_usage(self)) % (U128_MAX + 1),
               panic |-> ""]
         ELSE [value |-> 0, panic |-> "attempt to subtract with overflow"]

\* prev_amount + amount on u128: with overflow checks the addition panics,
\* without them it wraps (wrap tells which build runs).
add(self, token, amount, wrap) ==
    LET prev_amount == IF token \in DOMAIN self.tokens THEN self.tokens[token] ELSE 0
        sum == prev_amount + amount
    IN  IF sum > U128_MAX /\ ~wrap
        THEN [rec |-> self, panic |-> ERR_OVERFLOW]
        ELSE LET new == [self EXCEPT !.tokens = Insert(@, token, sum % (U128_MAX + 1))]
             IN  [rec |-> new,
                  panic |-> IF storage_usage(new) <= new.amount
                            THEN "" ELSE "ERR_INSUFFICIENT_STORAGE"]

\* sub with the balance check left out.
sub_unchecked(self, token, amount) ==
    IF token \notin DOMAIN self.tokens
    THEN [rec |-> self, panic |-> "ERR_MISSING_TOKEN"]
    ELSE [rec |-> [self EXCEPT !.tokens = Insert(@, token, self.tokens[token] - amount)],
          panic |-> ""]

\* sub with the insert of the new value left out.
sub_keeps(self, token, amount) ==
    IF token \notin DOMAIN self.tokens
    THEN [rec |-> self, panic |-> "ERR_MISSING_TOKEN"]
    ELSE IF ~(self.tokens[token] >= amount)
         THEN [rec |-> self, panic |-> "ERR_NOT_ENOUGH_TOKEN"]
         ELSE [rec |-> self, panic |-> ""]

sub(self, token, amount) ==
    IF token \notin DOMAIN self.tokens
    THEN [rec |-> self, panic |-> "ERR_MISSING_TOKEN"]
    ELSE LET value == self.tokens[token]
         IN  IF ~(value >= amount)
             THEN [rec |-> self, panic |-> "ERR_NOT_ENOUGH_TOKEN"]
             ELSE [rec |-> [self EXCEPT !.tokens = Insert(@, token, value - amount)],
                   panic |-> ""]

\* register with the storage check left out.
register_unchecked(self, token_id) ==
    [rec |-> [self EXCEPT !.tokens = Insert(@, token_id, 0)], panic |-> ""]

register(self, token_id) ==
    LET new == [self EXCEPT !.tokens = Insert(@, token_id, 0)]
    IN  [rec |-> new,
         panic |-> IF storage_usage(new) <= new.amount
                   THEN "" ELSE "ERR_INSUFFICIENT_STORAGE"]

\* unregister with the zero-balance check left out.
unregister_any(self, token_id) ==
    [rec |-> [self EXCEPT !.tokens = Remove(@, token_id)], panic |-> ""]

\* unregister that takes a missing token for an error, as sub does.
unregister_strict(self, token_id) ==
    IF token_id \notin DOMAIN self.tokens
    THEN [rec |-> self, panic |-> "ERR_MISSING_TOKEN"]
    ELSE [rec |-> [self EXCEPT !.tokens = Remove(@, token_id)],
          panic |-> IF self.tokens[token_id] = 0
                    THEN "" ELSE "ERR_UNREGISTER_NON_ZERO_BALANCE"]

unregister(self, token_id) ==
    LET amount == IF token_id \in DOMAIN self.tokens THEN self.tokens[token_id] ELSE 0
    IN  [rec |-> [self EXCEPT !.tokens = Remove(@, token_id)],
         panic |-> IF amount = 0 THEN "" ELSE "ERR_UNREGISTER_NON_ZERO_BALANCE"]

----------------------------------------------------------------------------
(* What a call does, in program order. *)

Loaded(account_id, rec) == [ev |-> "get", account_id |-> account_id, rec |-> rec]

Called(method, token_id, amount, rec) ==
    [ev |-> method, token_id |-> token_id, amount |-> amount, rec |-> rec]

Inserted(account_id, rec) == [ev |-> "insert", account_id |-> account_id, rec |-> rec]

FtTransfer(receiver_id, amount, token_id) ==
    [ev |-> "ft_transfer", receiver_id |-> receiver_id, amount |-> amount,
     token_id |-> token_id, attached_deposit |-> 1]

\* A call that panicked: the host discards its writes and its promises.
Panicked(message, done) ==
    [deposited_amounts |-> deposited_amounts, result |-> message, value |-> 0,
     trace |-> done]

\* A call that returned: its writes stand.
Returned(new_deposited_amounts, value, done) ==
    [deposited_amounts |-> new_deposited_amounts, result |-> OK, value |-> value,
     trace |-> done]

----------------------------------------------------------------------------
(* impl Contract *)

RECURSIVE register_each(_, _, _)
\* for token_id in token_ids { deposits.register(token_id.as_ref()); }
register_each(deposits, token_ids, done) ==
    IF token_ids = <<>>
    THEN [rec |-> deposits, panic |-> "", trace |-> done]
    ELSE LET r == register(deposits, Head(token_ids))
         IN  IF r.panic # ""
             THEN [rec |-> r.rec, panic |-> r.panic, trace |-> done]
             ELSE register_each(r.rec, Tail(token_ids),
                      Append(done, Called("register", Head(token_ids), 0, r.rec)))

\* register_tokens that inserts the record after every token instead of once
\* at the end, so that what was registered before a panic stays.
register_tokens_eager(sender_id, token_ids) ==
    IF sender_id \notin DOMAIN deposited_amounts
    THEN Panicked(ERR_NOT_REGISTERED, <<>>)
    ELSE LET deposits == deposited_amounts[sender_id]
             loop == register_each(deposits, token_ids, <<Loaded(sender_id, deposits)>>)
             last == loop.trace[Len(loop.trace)].rec
         IN  IF loop.panic # ""
             THEN [deposited_amounts |-> Insert(deposited_amounts, sender_id, last),
                   result |-> loop.panic, value |-> 0, trace |-> loop.trace]
             ELSE Returned(Insert(deposited_amounts, sender_id, loop.rec), 0,
                      Append(loop.trace, Inserted(sender_id, loop.rec)))

register_tokens(sender_id, token_ids) ==
    IF sender_id \notin DOMAIN deposited_amounts
    THEN Panicked(ERR_NOT_REGISTERED, <<>>)
    ELSE LET deposits == deposited_amounts[sender_id]
             loop == register_each(deposits, token_ids, <<Loaded(sender_id, deposits)>>)
         IN  IF loop.panic # ""
             THEN Panicked(loop.panic, loop.trace)
             ELSE Returned(Insert(deposited_amounts, sender_id, loop.rec), 0,
                      Append(loop.trace, Inserted(sender_id, loop.rec)))

RECURSIVE unregister_each(_, _, _)
\* for token_id in token_ids { deposits.unregister(token_id.as_ref()); }
unregister_each(deposits, token_ids, done) ==
    IF token_ids = <<>>
    THEN [rec |-> deposits, panic |-> "", trace |-> done]
    ELSE LET r == unregister(deposits, Head(token_ids))
         IN  IF r.panic # ""
             THEN [rec |-> r.rec, panic |-> r.panic, trace |-> done]
             ELSE unregister_each(r.rec, Tail(token_ids),
                      Append(done, Called("unregister", Head(token_ids), 0, r.rec)))

\* unregister_tokens that takes the default record where there is none,
\* as internal_register_account does.
unregister_tokens_default(sender_id, token_ids) ==
    LET deposits == IF sender_id \in DOMAIN deposited_amounts
                    THEN deposited_amounts[sender_id]
                    ELSE DefaultAccountDeposit
        loop == unregister_each(deposits, token_ids, <<Loaded(sender_id, deposits)>>)
    IN  IF loop.panic # ""
        THEN Panicked(loop.panic, loop.trace)
        ELSE Returned(Insert(deposited_amounts, sender_id, loop.rec), 0,
                 Append(loop.trace, Inserted(sender_id, loop.rec)))

unregister_tokens(sender_id, token_ids) ==
    IF sender_id \notin DOMAIN deposited_amounts
    THEN Panicked(ERR_NOT_REGISTERED, <<>>)
    ELSE LET deposits == deposited_amounts[sender_id]
             loop == unregister_each(deposits, token_ids, <<Loaded(sender_id, deposits)>>)
         IN  IF loop.panic # ""
             THEN Panicked(loop.panic, loop.trace)
             ELSE Returned(Insert(deposited_amounts, sender_id, loop.rec), 0,
                      Append(loop.trace, Inserted(sender_id, loop.rec)))

\* withdraw that creates the ft_transfer promise before it inserts the record.
withdraw_transfer_first(sender_id, token_id, amount, unregister_arg, attached_deposit) ==
    IF attached_deposit # 1
    THEN Panicked(ERR_ONE_YOCTO, <<>>)
    ELSE IF sender_id \notin DOMAIN deposited_amounts
    THEN Panicked(ERR_NOT_REGISTERED, <<>>)
    ELSE LET deposits == deposited_amounts[sender_id]
             loaded == <<Loaded(sender_id, deposits)>>
             s == sub(deposits, token_id, amount)
             subbed == Append(loaded, Called("sub", token_id, amount, s.rec))
             u == unregister(s.rec, token_id)
         IN  IF s.panic # ""
             THEN Panicked(s.panic, loaded)
             ELSE IF unregister_arg = "Some(true)" /\ u.panic # ""
             THEN Panicked(u.panic, subbed)
             ELSE LET final == IF unregister_arg = "Some(true)" THEN u.rec ELSE s.rec
                      changed == IF unregister_arg = "Some(true)"
                                 THEN Append(subbed, Called("unregister", token_id, 0, u.rec))
                                 ELSE subbed
                  IN  Returned(Insert(deposited_amounts, sender_id, final), 0,
                          changed \o <<FtTransfer(sender_id, amount, token_id),
                                       Inserted(sender_id, final)>>)

\* withdraw that inserts the record right after sub, before the optional
\* unregister, so that a panic of unregister finds the debit written.
withdraw_insert_early(sender_id, token_id, amount, unregister_arg, attached_deposit) ==
    IF attached_deposit # 1
    THEN Panicked(ERR_ONE_YOCTO, <<>>)
    ELSE IF sender_id \notin DOMAIN deposited_amounts
    THEN Panicked(ERR_NOT_REGISTERED, <<>>)
    ELSE LET deposits == deposited_amounts[sender_id]
             loaded == <<Loaded(sender_id, deposits)>>
             s == sub(deposits, token_id, amount)
             subbed == Append(loaded, Called("sub", token_id, amount, s.rec))
             u == unregister(s.rec, token_id)
         IN  IF s.panic # ""
             THEN Panicked(s.panic, loaded)
             ELSE IF unregister_arg = "Some(true)" /\ u.panic # ""
             THEN [deposited_amounts |-> Insert(deposited_amounts, sender_id, s.rec),
                   result |-> u.panic, value |-> 0,
                   trace |-> Append(subbed, Inserted(sender_id, s.rec))]
             ELSE LET final == IF unregister_arg = "Some(true)" THEN u.rec ELSE s.rec
                      changed == IF unregister_arg = "Some(true)"
                                 THEN Append(subbed, Called("unregister", token_id, 0, u.rec))
                                 ELSE subbed
                  IN  Returned(Insert(deposited_amounts, sender_id, final), 0,
                          changed \o <<Inserted(sender_id, final),
                                       FtTransfer(sender_id, amount, token_id)>>)

\* withdraw that unregisters whenever the argument is Some, Some(false) too.
withdraw_unregisters_on_some(sender_id, token_id, amount, unregister_arg, attached_deposit) ==
    IF attached_deposit # 1
    THEN Panicked(ERR_ONE_YOCTO, <<>>)
    ELSE IF sender_id \notin DOMAIN deposited_amounts
    THEN Panicked(ERR_NOT_REGISTERED, <<>>)
    ELSE LET deposits == deposited_amounts[sender_id]
             loaded == <<Loaded(sender_id, deposits)>>
             s == sub(deposits, token_id, amount)
             subbed == Append(loaded, Called("sub", token_id, amount, s.rec))
             u == unregister(s.rec, token_id)
         IN  IF s.panic # ""
             THEN Panicked(s.panic, loaded)
             ELSE IF unregister_arg # "None" /\ u.panic # ""
             THEN Panicked(u.panic, subbed)
             ELSE LET final == IF unregister_arg # "None" THEN u.rec ELSE s.rec
                      changed == IF unregister_arg # "None"
                                 THEN Append(subbed, Called("unregister", token_id, 0, u.rec))
                                 ELSE subbed
                  IN  Returned(Insert(deposited_amounts, sender_id, final), 0,
                          changed \o <<Inserted(sender_id, final),
                                       FtTransfer(sender_id, amount, token_id)>>)

\* withdraw whose ft_transfer carries the balance the record had instead of
\* the amount debited.
withdraw_sends_balance(sender_id, token_id, amount, unregister_arg, attached_deposit) ==
    IF attached_deposit # 1
    THEN Panicked(ERR_ONE_YOCTO, <<>>)
    ELSE IF sender_id \notin DOMAIN deposited_amounts
    THEN Panicked(ERR_NOT_REGISTERED, <<>>)
    ELSE LET deposits == deposited_amounts[sender_id]
             loaded == <<Loaded(sender_id, deposits)>>
             s == sub(deposits, token_id, amount)
             subbed == Append(loaded, Called("sub", token_id, amount, s.rec))
             u == unregister(s.rec, token_id)
         IN  IF s.panic # ""
             THEN Panicked(s.panic, loaded)
             ELSE IF unregister_arg = "Some(true)" /\ u.panic # ""
             THEN Panicked(u.panic, subbed)
             ELSE LET final == IF unregister_arg = "Some(true)" THEN u.rec ELSE s.rec
                      changed == IF unregister_arg = "Some(true)"
                                 THEN Append(subbed, Called("unregister", token_id, 0, u.rec))
                                 ELSE subbed
                  IN  Returned(Insert(deposited_amounts, sender_id, final), 0,
                          changed \o <<Inserted(sender_id, final),
                                       FtTransfer(sender_id, deposits.tokens[token_id],
                                                  token_id)>>)

\* unregister is the Option<bool> argument: "None", "Some(false)" or "Some(true)".
withdraw(sender_id, token_id, amount, unregister_arg, attached_deposit) ==
    IF attached_deposit # 1
    THEN Panicked(ERR_ONE_YOCTO, <<>>)
    ELSE IF sender_id \notin DOMAIN deposited_amounts
    THEN Panicked(ERR_NOT_REGISTERED, <<>>)
    ELSE LET deposits == deposited_amounts[sender_id]
             loaded == <<Loaded(sender_id, deposits)>>
             s == sub(deposits, token_id, amount)
             subbed == Append(loaded, Called("sub", token_id, amount, s.rec))
             u == unregister(s.rec, token_id)
         IN  IF s.panic # ""
             THEN Panicked(s.panic, loaded)
             ELSE IF unregister_arg = "Some(true)" /\ u.panic # ""
             THEN Panicked(u.panic, subbed)
             ELSE LET final == IF unregister_arg = "Some(true)" THEN u.rec ELSE s.rec
                      changed == IF unregister_arg = "Some(true)"
                                 THEN Append(subbed, Called("unregister", token_id, 0, u.rec))
                                 ELSE subbed
                  IN  Returned(Insert(deposited_amounts, sender_id, final), 0,
                          changed \o <<Inserted(sender_id, final),
                                       FtTransfer(sender_id, amount, token_id)>>)

\* deposit_amount.amount += amount on u128 panics or wraps, as the build has it.
internal_register_account(account_id, amount, wrap) ==
    LET deposit_amount == IF account_id \in DOMAIN deposited_amounts
                          THEN deposited_amounts[account_id]
                          ELSE DefaultAccountDeposit
        loaded == <<Loaded(account_id, deposit_amount)>>
        sum == deposit_amount.amount + amount
        new == [deposit_amount EXCEPT !.amount = sum % (U128_MAX + 1)]
    IN  IF sum > U128_MAX /\ ~wrap
        THEN Panicked(ERR_OVERFLOW, loaded)
        ELSE Returned(Insert(deposited_amounts, account_id, new), 0,
                 Append(loaded, Inserted(account_id, new)))

\* internal_deposit with the whitelist assert left out.
internal_deposit_unlisted(sender_id, token_id, amount, wrap) ==
    IF sender_id \notin DOMAIN deposited_amounts
    THEN Panicked(ERR_NOT_REGISTERED, <<>>)
    ELSE LET account_deposit == deposited_amounts[sender_id]
             loaded == <<Loaded(sender_id, account_deposit)>>
             a == add(account_deposit, token_id, amount, wrap)
         IN  IF a.panic # ""
             THEN Panicked(a.panic, loaded)
             ELSE Returned(Insert(deposited_amounts, sender_id, a.rec), 0,
                      loaded \o <<Called("add", token_id, amount, a.rec),
                                  Inserted(sender_id, a.rec)>>)

\* internal_deposit that inserts the record under token_id instead of
\* sender_id.
internal_deposit_wrong_key(sender_id, token_id, amount, wrap) ==
    IF sender_id \notin DOMAIN deposited_amounts
    THEN Panicked(ERR_NOT_REGISTERED, <<>>)
    ELSE LET account_deposit == deposited_amounts[sender_id]
             loaded == <<Loaded(sender_id, account_deposit)>>
             a == add(account_deposit, token_id, amount, wrap)
         IN  IF ~(token_id \in whitelisted_tokens
                    \/ token_id \in DOMAIN account_deposit.tokens)
             THEN Panicked("ERR_TOKEN_NOT_WHITELISTED", loaded)
             ELSE IF a.panic # ""
             THEN Panicked(a.panic, loaded)
             ELSE Returned(Insert(deposited_amounts, token_id, a.rec), 0,
                      loaded \o <<Called("add", token_id, amount, a.rec),
                                  Inserted(token_id, a.rec)>>)

internal_deposit(sender_id, token_id, amount, wrap) ==
    IF sender_id \notin DOMAIN deposited_amounts
    THEN Panicked(ERR_NOT_REGISTERED, <<>>)
    ELSE LET account_deposit == deposited_amounts[sender_id]
             loaded == <<Loaded(sender_id, account_deposit)>>
             a == add(account_deposit, token_id, amount, wrap)
         IN  IF ~(token_id \in whitelisted_tokens
                    \/ token_id \in DOMAIN account_deposit.tokens)
             THEN Panicked("ERR_TOKEN_NOT_WHITELISTED", loaded)
             ELSE IF a.panic # ""
             THEN Panicked(a.panic, loaded)
             ELSE Returned(Insert(deposited_amounts, sender_id, a.rec), 0,
                      loaded \o <<Called("add", token_id, amount, a.rec),
                                  Inserted(sender_id, a.rec)>>)

\* internal_get_deposit that answers with the record's native amount where
\* the token is no key of the record.
internal_get_deposit_amount(sender_id, token_id) ==
    IF sender_id \in DOMAIN deposited_amounts
    THEN IF token_id \in DOMAIN deposited_amounts[sender_id].tokens
         THEN deposited_amounts[sender_id].tokens[token_id]
         ELSE deposited_amounts[sender_id].amount
    ELSE 0

internal_get_deposit(sender_id, token_id) ==
    IF sender_id \in DOMAIN deposited_amounts
       /\ token_id \in DOMAIN deposited_amounts[sender_id].tokens
    THEN deposited_amounts[sender_id].tokens[token_id]
    ELSE 0

----------------------------------------------------------------------------
(* The state machine: one step per call of the contract. *)

NoHistory == [k \in Accounts \X Tokens |-> 0]

Init ==
    /\ deposited_amounts = EmptyMap
    /\ whitelisted_tokens = WhitelistedInit
    /\ lastCall = [op |-> "new", account_id |-> "", token_ids |-> <<>>, amount |-> 0,
                   unregister |-> "None", attached_deposit |-> 0,
                   result |-> OK, value |-> 0]
    /\ trace = <<>>
    /\ deposited = NoHistory
    /\ withdrawn = NoHistory
    /\ transferred = NoHistory

\* The call's outcome becomes the contract's state.
Commit(op, account_id, token_ids, amount, unregister_arg, attached_deposit, out) ==
    /\ deposited_amounts' = out.deposited_amounts
    /\ lastCall' = [op |-> op, account_id |-> account_id, token_ids |-> token_ids,
                    amount |-> amount, unregister |-> unregister_arg,
                    attached_deposit |-> attached_deposit,
                    result |-> out.result, value |-> out.value]
    /\ trace' = out.trace
    /\ UNCHANGED whitelisted_tokens

RegisterTokens(sender_id, token_ids) ==
    /\ Commit("register_tokens", sender_id, token_ids, 0, "None", 0,
              register_tokens(sender_id, token_ids))
    /\ UNCHANGED history

UnregisterTokens(sender_id, token_ids) ==
    /\ Commit("unregister_tokens", sender_id, token_ids, 0, "None", 0,
              unregister_tokens(sender_id, token_ids))
    /\ UNCHANGED history

InternalRegisterAccount(account_id, amount, wrap) ==
    /\ Commit("internal_register_account", account_id, <<>>, amount, "None", 0,
              internal_register_account(account_id, amount, wrap))
    /\ UNCHANGED history

InternalGetDeposit(sender_id, token_id) ==
    /\ Commit("internal_get_deposit", sender_id, <<token_id>>, 0, "None", 0,
              Returned(deposited_amounts, internal_get_deposit(sender_id, token_id), <<>>))
    /\ UNCHANGED history

WithdrawCall(sender_id, token_id, amount, unregister_arg, attached_deposit) ==
    Commit("withdraw", sender_id, <<token_id>>, amount, unregister_arg, attached_deposit,
           withdraw(sender_id, token_id, amount, unregister_arg, attached_deposit))

InternalDepositCall(sender_id, token_id, amount, wrap) ==
    Commit("internal_deposit", sender_id, <<token_id>>, amount, "None", 0,
           internal_deposit(sender_id, token_id, amount, wrap))

Withdraw(sender_id, token_id, amount, unregister_arg, attached_deposit) ==
    /\ WithdrawCall(sender_id, token_id, amount, unregister_arg, attached_deposit)
    /\ UNCHANGED history

InternalDeposit(sender_id, token_id, amount, wrap) ==
    /\ InternalDepositCall(sender_id, token_id, amount, wrap)
    /\ UNCHANGED history

\* The same two calls with the history variables following them.
Add(totals, account_id, token_id, amount) ==
    [totals EXCEPT ![<<account_id, token_id>>] = @ + amount]

TransferTotal(done, receiver_id, token_id) ==
    LET promises == {i \in DOMAIN done : done[i].ev = "ft_transfer"}
        RECURSIVE total(_)
        total(S) == IF S = {} THEN 0
                    ELSE LET i == CHOOSE j \in S : TRUE
                         IN  (IF done[i].receiver_id = receiver_id
                                 /\ done[i].token_id = token_id
                              THEN done[i].amount ELSE 0) + total(S \ {i})
    IN  total(promises)

WithdrawTracked(sender_id, token_id, amount, unregister_arg, attached_deposit) ==
    /\ WithdrawCall(sender_id, token_id, amount, unregister_arg, attached_deposit)
    /\ withdrawn' = IF lastCall'.result = OK
                    THEN Add(withdrawn, sender_id, token_id, amount) ELSE withdrawn
    /\ transferred' = [k \in Accounts \X Tokens |->
                          transferred[k] + TransferTotal(trace', k[1], k[2])]
    /\ UNCHANGED deposited

InternalDepositTracked(sender_id, token_id, amount, wrap) ==
    /\ InternalDepositCall(sender_id, token_id, amount, wrap)
    /\ deposited' = IF lastCall'.result = OK
                    THEN Add(deposited, sender_id, token_id, amount) ELSE deposited
    /\ UNCHANGED <<withdrawn, transferred>>

----------------------------------------------------------------------------
(* The calls tried. *)

TokenLists == UNION {[1..n -> Tokens] : n \in 0..MaxListLen}

TokenCost == (MAX_ACCOUNT_LENGTH + 16) * storage_byte_cost

\* Nothing, one token's worth, the bare record's worth.
RegisterAmounts == {0, TokenCost, min_storage_usage}

MaxPrepaid == min_storage_usage + Cardinality(Tokens) * TokenCost

TokenAmounts == {0, 1, MaxBalance, U128_MAX}

UnregisterArgs == {"None", "Some(false)", "Some(true)"}

\* The explored calls keep the native amount within what pays for every
\* token, and the balances within MaxBalance or at the top of the type.
AmountOf(account_id) ==
    IF account_id \in DOMAIN deposited_amounts
    THEN deposited_amounts[account_id].amount ELSE 0

PrepaidWithin(account_id, amount) == AmountOf(account_id) + amount <= MaxPrepaid

BalanceWithin(balance) == balance <= MaxBalance \/ balance = U128_MAX

DepositWithin(account_id, token_id, amount) ==
    BalanceWithin((internal_get_deposit(account_id, token_id) + amount) % (U128_MAX + 1))

WithdrawWithin(account_id, token_id, amount) ==
    \/ amount > internal_get_deposit(account_id, token_id)
    \/ BalanceWithin(internal_get_deposit(account_id, token_id) - amount)

AttachedDeposits == {0, 1, 2}

Next ==
    \/ \E a \in Callers, amount \in RegisterAmounts, wrap \in BOOLEAN :
          PrepaidWithin(a, amount) /\ InternalRegisterAccount(a, amount, wrap)
    \/ \E a \in Callers, ids \in TokenLists :
          RegisterTokens(a, ids)
    \/ \E a \in Callers, ids \in TokenLists :
          UnregisterTokens(a, ids)
    \/ \E a \in Callers, t \in Tokens, amount \in TokenAmounts, wrap \in BOOLEAN :
          DepositWithin(a, t, amount) /\ InternalDeposit(a, t, amount, wrap)
    \/ \E a \in Callers, t \in Tokens, amount \in TokenAmounts,
          u \in UnregisterArgs, attached \in AttachedDeposits :
          WithdrawWithin(a, t, amount) /\ Withdraw(a, t, amount, u, attached)
    \/ \E a \in Callers, t \in Tokens :
          InternalGetDeposit(a, t)

Spec == Init /\ [][Next]_vars

----------------------------------------------------------------------------
(* The same calls of one funded account, with the history variables        *)
(* following every deposit, withdrawal and transfer.                       *)

LedgerAmounts == {1, U128_MAX}

\* A token's deposits are followed up to one deposit of U128_MAX and
\* MaxDeposited more.
DepositedWithin(account_id, token_id, amount) ==
    LET total == deposited[<<account_id, token_id>>] + amount
    IN  total <= MaxDeposited \/ (total >= U128_MAX /\ total <= U128_MAX + MaxDeposited)

NextLedger ==
    \/ \E a \in Callers, wrap \in BOOLEAN :
          PrepaidWithin(a, MaxPrepaid) /\ InternalRegisterAccount(a, MaxPrepaid, wrap)
    \/ \E a \in Callers, t \in Tokens :
          RegisterTokens(a, <<t>>)
    \/ \E a \in Callers, t \in Tokens :
          UnregisterTokens(a, <<t>>)
    \/ \E a \in Callers, t \in Tokens, amount \in LedgerAmounts, wrap \in BOOLEAN :
          /\ DepositWithin(a, t, amount) /\ DepositedWithin(a, t, amount)
          /\ InternalDepositTracked(a, t, amount, wrap)
    \/ \E a \in Callers, t \in Tokens, amount \in LedgerAmounts,
          u \in {"None", "Some(true)"} :
          WithdrawWithin(a, t, amount) /\ WithdrawTracked(a, t, amount, u, 1)

SpecLedger == Init /\ [][NextLedger]_vars

----------------------------------------------------------------------------
(* The calls of one account whose native amount is topped up to the top of  *)
(* the type and past it.                                                   *)

\* The bare record's worth, every token's worth, the largest u128.
TopUpAmounts == {min_storage_usage, MaxPrepaid, U128_MAX}

\* A top-up is followed while the amount stays within MaxPrepaid or lands on
\* U128_MAX, and past U128_MAX from there.
TopUpWithin(account_id, amount) ==
    LET sum == AmountOf(account_id) + amount
    IN  \/ sum <= MaxPrepaid
        \/ sum = U128_MAX
        \/ sum > U128_MAX /\ AmountOf(account_id) = U128_MAX

NextOverflow ==
    \/ \E a \in Callers, amount \in TopUpAmounts, wrap \in BOOLEAN :
          TopUpWithin(a, amount) /\ InternalRegisterAccount(a, amount, wrap)
    \/ \E a \in Callers, t \in Tokens :
          RegisterTokens(a, <<t>>)
    \/ \E a \in Callers, t \in Tokens :
          UnregisterTokens(a, <<t>>)
    \/ \E a \in Callers, t \in Tokens, wrap \in BOOLEAN :
          DepositWithin(a, t, 1) /\ InternalDeposit(a, t, 1, wrap)
    \/ \E a \in Callers, t \in Tokens, u \in {"None", "Some(true)"} :
          WithdrawWithin(a, t, 1) /\ Withdraw(a, t, 1, u, 1)

SpecOverflow == Init /\ [][NextOverflow]_vars

----------------------------------------------------------------------------
(* The calls of every account, one token and one unit at a time.           *)

NextFrame ==
    \/ \E a \in Accounts, amount \in {min_storage_usage, MaxPrepaid}, wrap \in BOOLEAN :
          PrepaidWithin(a, amount) /\ InternalRegisterAccount(a, amount, wrap)
    \/ \E a \in Accounts, t \in Tokens :
          RegisterTokens(a, <<t>>)
    \/ \E a \in Accounts, t \in Tokens :
          UnregisterTokens(a, <<t>>)
    \/ \E a \in Accounts, t \in Tokens, wrap \in BOOLEAN :
          DepositWithin(a, t, 1) /\ InternalDeposit(a, t, 1, wrap)
    \/ \E a \in Accounts, t \in Tokens, u \in {"None", "Some(true)"} :
          WithdrawWithin(a, t, 1) /\ Withdraw(a, t, 1, u, 1)

SpecFrame == Init /\ [][NextFrame]_vars

----------------------------------------------------------------------------
(* Properties.  They speak of the last call: Before is the record the call *)
(* loaded, Now the record deposited_amounts holds for its account.         *)

Before == trace[1].rec

Now == deposited_amounts[lastCall.account_id]

Listed == {lastCall.token_ids[i] : i \in DOMAIN lastCall.token_ids}

TheToken == lastCall.token_ids[1]

Solvent(rec) == storage_usage(rec) <= rec.amount

Events(kind) == {i \in DOMAIN trace : trace[i].ev = kind}

\* The cost of a record with n tokens.
UsageOf(n) == (MIN_ACCOUNT_DEPOSIT_LENGTH + n * (MAX_ACCOUNT_LENGTH + 16)) * storage_byte_cost

\* C1: register_tokens on a record leaves the balance of every token that was
\* already registered as it was (re-registering is a no-op on the value).
C1_RegisterKeepsBalance ==
    (lastCall.op = "register_tokens" /\ lastCall.result = OK)
        => \A t \in DOMAIN Before.tokens : Now.tokens[t] = Before.tokens[t]

\* C2: every record in deposited_amounts has its storage usage covered by
\* its amount.
C2_EveryRecordSolvent ==
    \A a \in DOMAIN deposited_amounts : Solvent(deposited_amounts[a])

\* C3: every register and every add that returned left the record's storage
\* usage covered; a register_tokens or an internal_deposit that returned
\* inserted a covered record; a call of the two whose record would not be
\* covered fails with ERR_INSUFFICIENT_STORAGE, and after that failure
\* deposited_amounts holds the record as it was.
C3_SolventAfterRegisterAndCredit ==
    /\ \A i \in Events("register") \cup Events("add") : Solvent(trace[i].rec)
    /\ (/\ lastCall.op \in {"register_tokens", "internal_deposit"}
        /\ lastCall.result = OK)
          => Solvent(Now)
    /\ (/\ lastCall.op \in {"register_tokens", "internal_deposit"}
        /\ trace # <<>>
        /\ lastCall.op = "internal_deposit"
              => TheToken \in whitelisted_tokens \cup DOMAIN Before.tokens
        /\ UsageOf(Cardinality(DOMAIN Before.tokens \cup Listed)) > Before.amount)
          => lastCall.result = "ERR_INSUFFICIENT_STORAGE"
    /\ (/\ lastCall.op \in {"register_tokens", "internal_deposit"}
        /\ lastCall.result = "ERR_INSUFFICIENT_STORAGE")
          => Now = Before

\* C3, for the calls that register or credit something: the same with the
\* register_tokens of an empty list left aside, which calls no register and
\* inserts the record as it found it.
C3_ExceptEmptyList ==
    /\ \A i \in Events("register") \cup Events("add") : Solvent(trace[i].rec)
    /\ (/\ lastCall.op \in {"register_tokens", "internal_deposit"}
        /\ lastCall.token_ids # <<>>
        /\ lastCall.result = OK)
          => Solvent(Now)
    /\ (/\ lastCall.op \in {"register_tokens", "internal_deposit"}
        /\ trace # <<>>
        /\ lastCall.token_ids # <<>>
        /\ lastCall.op = "internal_deposit"
              => TheToken \in whitelisted_tokens \cup DOMAIN Before.tokens
        /\ UsageOf(Cardinality(DOMAIN Before.tokens \cup Listed)) > Before.amount)
          => lastCall.result = "ERR_INSUFFICIENT_STORAGE"
    /\ (/\ lastCall.op \in {"register_tokens", "internal_deposit"}
        /\ lastCall.result = "ERR_INSUFFICIENT_STORAGE")
          => Now = Before

\* C3, reached: a record whose amount is exactly the bare record's usage
\* refused register_tokens of one token and still has no token.
C3_Witness ==
    /\ lastCall.op = "register_tokens"
    /\ Len(lastCall.token_ids) = 1
    /\ lastCall.result = "ERR_INSUFFICIENT_STORAGE"
    /\ Before.amount = min_storage_usage
    /\ Before.tokens = EmptyMap
    /\ Now.tokens = EmptyMap


\* C4: the balance recorded for an account and a token is at most what the
\* account deposited of the token minus what it withdrew.
C4_BalanceWithinDeposits ==
    \A a \in Accounts, t \in Tokens :
        internal_get_deposit(a, t) <= deposited[<<a, t>>] - withdrawn[<<a, t>>]

\* C4 witness: after deposits and a withdrawal a balance is left, equal to
\* the deposits less the withdrawal.
C4_Witness ==
    /\ lastCall.op = "withdraw"
    /\ lastCall.result = OK
    /\ withdrawn[<<lastCall.account_id, TheToken>>] > 0
    /\ internal_get_deposit(lastCall.account_id, TheToken) > 0
    /\ internal_get_deposit(lastCall.account_id, TheToken)
         = deposited[<<lastCall.account_id, TheToken>>]
             - withdrawn[<<lastCall.account_id, TheToken>>]

\* C5: no balance is negative, and a withdraw of more than the balance fails
\* with ERR_NOT_ENOUGH_TOKEN, the record staying as it was.
C5_NoNegativeBalance ==
    /\ \A a \in DOMAIN deposited_amounts :
          \A t \in DOMAIN deposited_amounts[a].tokens :
              deposited_amounts[a].tokens[t] >= 0
    /\ (/\ lastCall.op = "withdraw"
        /\ trace # <<>>
        /\ TheToken \in DOMAIN Before.tokens
        /\ lastCall.amount > Before.tokens[TheToken])
          => /\ lastCall.result = "ERR_NOT_ENOUGH_TOKEN"
             /\ Now = Before
             /\ Events("ft_transfer") = {}

\* C5 witness: a withdraw of more than a positive balance was refused.
C5_Witness ==
    /\ lastCall.op = "withdraw"
    /\ lastCall.result = "ERR_NOT_ENOUGH_TOKEN"
    /\ Before.tokens[TheToken] > 0
    /\ lastCall.amount > Before.tokens[TheToken]
    /\ Now.tokens[TheToken] = Before.tokens[TheToken]

\* C6: a withdraw that returned inserted the debited record once and then,
\* as the last thing it did, created one ft_transfer of the amount of the
\* token to the caller; no ft_transfer exists without that insert before it.
C6_InsertThenOneTransfer ==
    /\ (lastCall.op = "withdraw" /\ lastCall.result = OK)
          => LET n == Len(trace)
             IN  /\ n >= 4
                 /\ trace[n] = FtTransfer(lastCall.account_id, lastCall.amount, TheToken)
                 /\ trace[n - 1] = Inserted(lastCall.account_id, Now)
                 /\ Cardinality(Events("ft_transfer")) = 1
                 /\ Cardinality(Events("insert")) = 1
                 /\ IF TheToken \in DOMAIN Now.tokens
                    THEN Now.tokens[TheToken] = Before.tokens[TheToken] - lastCall.amount
                    ELSE /\ lastCall.unregister = "Some(true)"
                         /\ Before.tokens[TheToken] = lastCall.amount
    /\ \A i \in Events("ft_transfer") :
          /\ lastCall.op = "withdraw"
          /\ lastCall.result = OK
          /\ \E j \in Events("insert") : j < i /\ trace[j].rec = Now

\* C6 witness: a withdraw of a positive amount returned.
C6_Witness ==
    /\ lastCall.op = "withdraw"
    /\ lastCall.result = OK
    /\ lastCall.amount > 0
    /\ Events("ft_transfer") # {}

\* C7: a withdraw that fails leaves deposited_amounts as it was and creates no
\* promise, and each of the five causes makes it fail: an attached deposit
\* other than one (found before the record is even loaded), no record, a
\* token that is not registered, an amount above the balance, unregister with
\* a balance left.
C7_FailedWithdrawChangesNothing ==
    [][lastCall'.op = "withdraw"
        => LET caller == lastCall'.account_id
               token == lastCall'.token_ids[1]
               known == caller \in DOMAIN deposited_amounts
               held == known /\ token \in DOMAIN deposited_amounts[caller].tokens
               balance == deposited_amounts[caller].tokens[token]
           IN  /\ lastCall'.result # OK
                    => /\ deposited_amounts' = deposited_amounts
                       /\ \A i \in DOMAIN trace' :
                             trace'[i].ev \notin {"insert", "ft_transfer"}
               /\ lastCall'.attached_deposit # 1
                    => lastCall'.result = ERR_ONE_YOCTO /\ trace' = <<>>
               /\ (lastCall'.attached_deposit = 1 /\ ~known)
                    => lastCall'.result = ERR_NOT_REGISTERED
               /\ (lastCall'.attached_deposit = 1 /\ known /\ ~held)
                    => lastCall'.result = "ERR_MISSING_TOKEN"
               /\ (lastCall'.attached_deposit = 1 /\ held /\ lastCall'.amount > balance)
                    => lastCall'.result = "ERR_NOT_ENOUGH_TOKEN"
               /\ (/\ lastCall'.attached_deposit = 1
                   /\ held
                   /\ lastCall'.amount < balance
                   /\ lastCall'.unregister = "Some(true)")
                    => lastCall'.result = "ERR_UNREGISTER_NON_ZERO_BALANCE"
      ]_vars

\* C7 witness: a withdraw with unregister failed on the balance left, after
\* sub had returned, and the balance is what it was.
C7_Witness ==
    /\ lastCall.op = "withdraw"
    /\ lastCall.result = "ERR_UNREGISTER_NON_ZERO_BALANCE"
    /\ Len(trace) = 2
    /\ trace[2].ev = "sub"
    /\ Now = Before
    /\ Now.tokens[TheToken] > lastCall.amount


\* The tokens of Before that stay when the listed ones are removed.
WithoutListed == [t \in (DOMAIN Before.tokens) \ Listed |-> Before.tokens[t]]

\* C8: unregister_tokens returns exactly when every listed token that is
\* registered has balance zero, and otherwise fails with
\* ERR_UNREGISTER_NON_ZERO_BALANCE, the record and its keys staying; and from
\* one record of a call to the next (the record loaded, the record after each
\* method that returned, the record inserted) no token with a balance above
\* zero stops being registered.
C8_UnregisterOnlyAtZero ==
    /\ (lastCall.op = "unregister_tokens" /\ trace # <<>>)
          => /\ lastCall.result = OK
                  <=> \A t \in Listed \cap DOMAIN Before.tokens : Before.tokens[t] = 0
             /\ lastCall.result # OK
                  => /\ lastCall.result = "ERR_UNREGISTER_NON_ZERO_BALANCE"
                     /\ Now = Before
    /\ \A i \in DOMAIN trace :
          (i + 1 \in DOMAIN trace /\ trace[i + 1].ev # "ft_transfer")
              => \A t \in DOMAIN trace[i].rec.tokens :
                    trace[i].rec.tokens[t] > 0 => t \in DOMAIN trace[i + 1].rec.tokens
    /\ \A i \in Events("unregister") :
          trace[i].token_id \in DOMAIN trace[i - 1].rec.tokens
              => trace[i - 1].rec.tokens[trace[i].token_id] = 0

\* C8 witness: unregister_tokens of a token with a balance above zero was
\* refused and the token is still registered with that balance.
C8_Witness ==
    /\ lastCall.op = "unregister_tokens"
    /\ lastCall.result = "ERR_UNREGISTER_NON_ZERO_BALANCE"
    /\ \E t \in Listed \cap DOMAIN Now.tokens : Now.tokens[t] > 0

\* C9 as claimed: unregister_tokens with a listed token that is not a key of
\* the caller's record fails and changes nothing.
C9_UnknownAssetIsFatal ==
    (/\ lastCall.op = "unregister_tokens"
     /\ trace # <<>>
     /\ \E t \in Listed : t \notin DOMAIN Before.tokens)
        => lastCall.result # OK /\ Now = Before

\* C9 amended: unregister_tokens takes a listed token that is not a key of the
\* caller's record for a balance of zero: the call ends only with success or
\* ERR_UNREGISTER_NON_ZERO_BALANCE, and when every listed token is absent or
\* has balance zero it returns and inserts the record without the listed keys.
C9_UnregisterAbsentIsNoOp ==
    (lastCall.op = "unregister_tokens" /\ trace # <<>>)
        => /\ lastCall.result \in {OK, "ERR_UNREGISTER_NON_ZERO_BALANCE"}
           /\ (\A t \in Listed : t \notin DOMAIN Before.tokens \/ Before.tokens[t] = 0)
                => /\ lastCall.result = OK
                   /\ Now = [Before EXCEPT !.tokens = WithoutListed]

\* C9 witness: unregister_tokens returned although a listed token was not
\* registered.
C9_Witness ==
    /\ lastCall.op = "unregister_tokens"
    /\ lastCall.result = OK
    /\ trace # <<>>
    /\ \E t \in Listed : t \notin DOMAIN Before.tokens

\* C10: register_tokens and unregister_tokens that fail leave the record in
\* deposited_amounts as it was and insert nothing; those that return called
\* the method once per listed token, in the order of the list, and then
\* inserted the record once: with every listed token registered, or without
\* the listed tokens, the other tokens and the amount as they were.
C10_AllOrNothing ==
    (lastCall.op \in {"register_tokens", "unregister_tokens"} /\ trace # <<>>)
        => LET ids == lastCall.token_ids
               method == IF lastCall.op = "register_tokens"
                         THEN "register" ELSE "unregister"
           IN  IF lastCall.result = OK
               THEN /\ Len(trace) = Len(ids) + 2
                    /\ \A i \in DOMAIN ids :
                          trace[i + 1].ev = method /\ trace[i + 1].token_id = ids[i]
                    /\ trace[Len(trace)] = Inserted(lastCall.account_id, Now)
                    /\ Now.amount = Before.amount
                    /\ DOMAIN Now.tokens = IF method = "register"
                                           THEN (DOMAIN Before.tokens) \cup Listed
                                           ELSE (DOMAIN Before.tokens) \ Listed
                    /\ \A t \in DOMAIN Now.tokens :
                          IF t \in Listed THEN t \in DOMAIN Before.tokens \/ Now.tokens[t] = 0
                          ELSE Now.tokens[t] = Before.tokens[t]
               ELSE /\ Now = Before
                    /\ Events("insert") = {}

\* C10 witness: a call failed on a later token of its list after the method
\* had returned for an earlier one, and the record is as it was.
C10_Witness ==
    /\ lastCall.op \in {"register_tokens", "unregister_tokens"}
    /\ lastCall.result # OK
    /\ Len(trace) >= 2
    /\ trace[2].rec # Before
    /\ Now = Before


\* C11: internal_deposit on an existing record calls add only when the token
\* is whitelisted or already a key of the record; when it is neither the call
\* fails with ERR_TOKEN_NOT_WHITELISTED, the record stays as it was, the token
\* is no key of it and internal_get_deposit of it is 0.  An internal_deposit
\* that returned has the token as a key, so a whitelisted token that was no
\* key is one after its first deposit.
C11_DepositOnlyListedOrRegistered ==
    (lastCall.op = "internal_deposit" /\ trace # <<>>)
        => LET allowed == TheToken \in whitelisted_tokens \cup DOMAIN Before.tokens
           IN  /\ ~allowed
                    => /\ lastCall.result = "ERR_TOKEN_NOT_WHITELISTED"
                       /\ Now = Before
                       /\ TheToken \notin DOMAIN Now.tokens
                       /\ internal_get_deposit(lastCall.account_id, TheToken) = 0
               /\ Events("add") # {} => allowed
               /\ lastCall.result = OK
                    => /\ allowed
                       /\ TheToken \in DOMAIN Now.tokens
                       /\ \A t \in DOMAIN Now.tokens :
                             t \in DOMAIN Before.tokens \/ t = TheToken

\* C11 witness: a deposit of a token that is neither whitelisted nor
\* registered was refused on a record that holds another token, and the token
\* is still no key of the record.
C11_Witness ==
    /\ lastCall.op = "internal_deposit"
    /\ lastCall.result = "ERR_TOKEN_NOT_WHITELISTED"
    /\ lastCall.amount > 0
    /\ DOMAIN Before.tokens # {}
    /\ TheToken \notin DOMAIN Now.tokens


\* C12: a withdraw with one yoctoNEAR attached, by a caller that has a record,
\* with unregister = Some(true) returns exactly when the token is a key of
\* the record and the amount is its whole balance, and then the token is no
\* key any more; with an amount below the balance it fails with
\* ERR_UNREGISTER_NON_ZERO_BALANCE and the balance is as it was.  With
\* unregister None or Some(false) a withdraw of the whole balance returns and
\* leaves the token a key with value 0.
C12_WithdrawAndUnregister ==
    (lastCall.op = "withdraw" /\ lastCall.attached_deposit = 1 /\ trace # <<>>)
        => LET held == TheToken \in DOMAIN Before.tokens
               balance == Before.tokens[TheToken]
           IN  IF lastCall.unregister = "Some(true)"
               THEN /\ lastCall.result = OK <=> (held /\ lastCall.amount = balance)
                    /\ lastCall.result = OK
                         => /\ TheToken \notin DOMAIN Now.tokens
                            /\ \A t \in DOMAIN Before.tokens \ {TheToken} :
                                  t \in DOMAIN Now.tokens
                    /\ (held /\ lastCall.amount < balance)
                         => /\ lastCall.result = "ERR_UNREGISTER_NON_ZERO_BALANCE"
                            /\ Now = Before
                            /\ Now.tokens[TheToken] = balance
               ELSE (held /\ lastCall.amount = balance)
                         => /\ lastCall.result = OK
                            /\ TheToken \in DOMAIN Now.tokens
                            /\ Now.tokens[TheToken] = 0

\* C12 witness: a withdraw of the whole balance, above zero, with
\* unregister = Some(true) returned and the token is no key any more.
C12_Witness ==
    /\ lastCall.op = "withdraw"
    /\ lastCall.unregister = "Some(true)"
    /\ lastCall.result = OK
    /\ lastCall.amount > 0
    /\ Before.tokens[TheToken] = lastCall.amount
    /\ TheToken \notin DOMAIN Now.tokens


\* C13: the amount of an account's record never decreases from one state to
\* the next, whatever the call (register_tokens, unregister_tokens,
\* internal_deposit, withdraw, internal_register_account), and only
\* internal_register_account changes it.
C13_PrepaidNeverDecreases ==
    [][\A a \in DOMAIN deposited_amounts \cap DOMAIN deposited_amounts' :
          /\ deposited_amounts'[a].amount >= deposited_amounts[a].amount
          /\ deposited_amounts'[a].amount # deposited_amounts[a].amount
                => lastCall'.op = "internal_register_account"
      ]_vars

\* C14: internal_register_account never fails, whatever the amount and the
\* state: it leaves a record whose amount is the loaded record's amount (0
\* when there was no record) plus the argument, not wrapped around, and
\* whose tokens are the loaded record's (none when there was no record).
C14_RegisterAccountNeverFails ==
    lastCall.op = "internal_register_account"
        => /\ lastCall.result = OK
           /\ lastCall.account_id \in DOMAIN deposited_amounts
           /\ Now.amount = Before.amount + lastCall.amount
           /\ Now.tokens = Before.tokens


\* C15: register_tokens, unregister_tokens, withdraw and internal_deposit for
\* an account that has no record fail and leave deposited_amounts as it was,
\* with ERR_NOT_REGISTERED (a withdraw without the one yoctoNEAR fails on
\* that before it looks for the record); a record appears only through
\* internal_register_account, for the account of the call, and an account
\* that has a record has one in the next state.
C15_OnlyRegisterAccountCreates ==
    [][/\ DOMAIN deposited_amounts \subseteq DOMAIN deposited_amounts'
       /\ DOMAIN deposited_amounts' # DOMAIN deposited_amounts
             => /\ lastCall'.op = "internal_register_account"
                /\ DOMAIN deposited_amounts'
                      = DOMAIN deposited_amounts \cup {lastCall'.account_id}
       /\ (/\ lastCall'.op \in {"register_tokens", "unregister_tokens",
                                "withdraw", "internal_deposit"}
           /\ lastCall'.account_id \notin DOMAIN deposited_amounts)
             => /\ lastCall'.result # OK
                /\ deposited_amounts' = deposited_amounts
                /\ lastCall'.result =
                      IF lastCall'.op = "withdraw" /\ lastCall'.attached_deposit # 1
                      THEN ERR_ONE_YOCTO ELSE ERR_NOT_REGISTERED
      ]_vars

\* C15 witness: a withdraw with one yoctoNEAR attached by an account without
\* a record failed with ERR_NOT_REGISTERED and there is still no record.
C15_Witness ==
    /\ lastCall.op = "withdraw"
    /\ lastCall.attached_deposit = 1
    /\ lastCall.result = ERR_NOT_REGISTERED
    /\ lastCall.account_id \notin DOMAIN deposited_amounts


\* C16: internal_get_deposit always returns and changes nothing: it returns 0
\* when the account has no record or the token is no key of the record, and
\* the stored balance of the token otherwise (0 too for a key with balance 0).
C16_GetDepositReadsOnly ==
    [][lastCall'.op = "internal_get_deposit"
        => LET account == lastCall'.account_id
               token == lastCall'.token_ids[1]
           IN  /\ lastCall'.result = OK
               /\ deposited_amounts' = deposited_amounts
               /\ whitelisted_tokens' = whitelisted_tokens
               /\ account \notin DOMAIN deposited_amounts => lastCall'.value = 0
               /\ account \in DOMAIN deposited_amounts
                    => lastCall'.value =
                          IF token \in DOMAIN deposited_amounts[account].tokens
                          THEN deposited_amounts[account].tokens[token]
                          ELSE 0
      ]_vars

\* C16 witness: internal_get_deposit returned the stored balance of a token,
\* above zero, of a record that has another token that is no key.
C16_Witness ==
    /\ lastCall.op = "internal_get_deposit"
    /\ lastCall.result = OK
    /\ lastCall.value > 0
    /\ Now.tokens[TheToken] = lastCall.value
    /\ \E t \in Tokens : t \notin DOMAIN Now.tokens


\* C17: an internal_deposit that returned left the token's balance at exactly
\* the balance the record had (0 for a token that was no key) plus the
\* amount, and so never below the balance it had.
C17_DepositAddsExactly ==
    (lastCall.op = "internal_deposit" /\ lastCall.result = OK)
        => LET prev_amount == IF TheToken \in DOMAIN Before.tokens
                              THEN Before.tokens[TheToken] ELSE 0
           IN  /\ Now.tokens[TheToken] = prev_amount + lastCall.amount
               /\ Now.tokens[TheToken] >= prev_amount

\* C18: in every state the balance internal_get_deposit gives for an account
\* and a token is what the account deposited of the token less what it
\* withdrew, and no register_tokens, unregister_tokens or
\* internal_register_account changes a balance.
C18_ExactConservation ==
    [][/\ \A a \in Accounts, t \in Tokens :
             internal_get_deposit(a, t)' = deposited'[<<a, t>>] - withdrawn'[<<a, t>>]
       /\ lastCall'.op \in {"register_tokens", "unregister_tokens",
                            "internal_register_account"}
             => \A a \in Accounts, t \in Tokens :
                   internal_get_deposit(a, t)' = internal_get_deposit(a, t)
      ]_vars


\* C19: for every account and token the total of the ft_transfer promises
\* created for the account and the token equals the total debited from the
\* account by its withdraws that returned, and never exceeds the total the
\* account deposited of the token; the promise of a withdraw carries what
\* its sub took from the balance.
C19_TransfersWithinDeposits ==
    /\ \A a \in Accounts, t \in Tokens :
          /\ transferred[<<a, t>>] = withdrawn[<<a, t>>]
          /\ transferred[<<a, t>>] <= deposited[<<a, t>>]
    /\ \A i \in Events("ft_transfer") :
          /\ trace[2].ev = "sub"
          /\ trace[i].receiver_id = trace[1].account_id
          /\ trace[i].token_id = trace[2].token_id
          /\ trace[i].amount
                = Before.tokens[trace[i].token_id] - trace[2].rec.tokens[trace[i].token_id]

\* C19 witness: after a withdraw that returned, transfers above zero were
\* requested for the account and the token, less than the account deposited.
C19_Witness ==
    /\ lastCall.op = "withdraw"
    /\ lastCall.result = OK
    /\ transferred[<<lastCall.account_id, TheToken>>] > 0
    /\ transferred[<<lastCall.account_id, TheToken>>]
          < deposited[<<lastCall.account_id, TheToken>>]


\* C20: a call for an account, returned or failed, leaves the record of
\* every other account as it was (and creates none for another account); an
\* internal_deposit or a withdraw of a token leaves the amount of the
\* account's record and its balance of every other token as they were.
C20_CrossAccountFrame ==
    [][LET account == lastCall'.account_id
           others == [b \in (DOMAIN deposited_amounts) \ {account}
                         |-> deposited_amounts[b]]
       IN  /\ [b \in (DOMAIN deposited_amounts') \ {account} |-> deposited_amounts'[b]]
                 = others
           /\ (/\ lastCall'.op \in {"internal_deposit", "withdraw"}
               /\ account \in DOMAIN deposited_amounts)
                 => /\ account \in DOMAIN deposited_amounts'
                    /\ deposited_amounts'[account].amount
                          = deposited_amounts[account].amount
                    /\ Remove(deposited_amounts'[account].tokens, lastCall'.token_ids[1])
                          = Remove(deposited_amounts[account].tokens, lastCall'.token_ids[1])
      ]_vars

\* C20 witness: a withdraw returned for an account that holds a balance of
\* another token, while another account holds a balance as well.
C20_Witness ==
    /\ lastCall.op = "withdraw"
    /\ lastCall.result = OK
    /\ \E t \in DOMAIN Now.tokens : t # TheToken /\ Now.tokens[t] > 0
    /\ \E b \in DOMAIN deposited_amounts :
          /\ b # lastCall.account_id
          /\ \E t \in DOMAIN deposited_amounts[b].tokens :
                deposited_amounts[b].tokens[t] > 0

====
